---- MODULE Spec2Model ----
(***************************************************************************)
(* Order fulfilment and ledger core of the Visio Dashboard (src/app.py):   *)
(* the Product, Order, OrderItem and Transaction tables, the request       *)
(* handlers add_order, adjust_stock, edit_product, update_order_status,    *)
(* delete_order and add_transaction, and the aggregates of the dashboard.  *)
(*                                                                         *)
(* Money is counted in whole units (the Float columns hold the same sums,  *)
(* added in the same order).  An order_number is modelled by its random    *)
(* suffix: the date stamp is the same for every order of the modelled day. *)
(***************************************************************************)
EXTENDS Integers, Sequences, FiniteSets, TLC

VARIABLES
    products,       \* table product: id -> [price, stock_quantity]
    orders,         \* table order: id -> [order_number, status, total_amount]
    order_items,    \* table order_item, rows in insertion order
    transactions,   \* table transaction (the ledger), rows in insertion order
    req,            \* per worker: the add_order request it is executing
    writer,         \* the worker holding the database write lock, 0 if none
    last,           \* history: the request handled last and its outcome
    now,            \* the day of the server's clock
    view            \* what the dashboard rendered last

db == <<products, orders, order_items, transactions>>
vars == <<products, orders, order_items, transactions, req, writer, last,
         now, view>>

----------------------------------------------------------------------------
(* Bounds of the model *)

MaxStock == 3       \* stock levels explored: 0..MaxStock
MaxItems == 2       \* line items per request
MaxTxns == 2        \* ledger rows

ProductIds == {1, 2}            \* the products of the catalog
Workers == {1, 2}               \* concurrent request threads
RandSuffixes == {1000, 1001}    \* values random.randint(1000, 9999) returns

----------------------------------------------------------------------------
(* Form fields: request.form values are strings *)

Num(n) == [k |-> "num", n |-> n]
Blank == [k |-> "blank", n |-> 0]       \* the empty string
Junk == [k |-> "junk", n |-> 0]         \* a non-empty, non-numeric string

\* Python truth value of a string: every non-empty string is true, "0" too
Truthy(v) == v.k # "blank"
\* int(v) raises ValueError unless v is numeric
IsInt(v) == v.k = "num"
int(v) == v.n

\* float(v) raises ValueError unless v is numeric
IsFloat(v) == v.k = "num"
float(v) == v.n

Max(a, b) == IF a >= b THEN a ELSE b
Min(a, b) == IF a <= b THEN a ELSE b

\* zip(a, b): pairs up to the shorter list
zip(a, b) == [i \in 1..Min(Len(a), Len(b)) |-> <<a[i], b[i]>>]

STATUSES == <<"pending", "confirmed", "shipped", "delivered", "cancelled">>
StatusSet == {STATUSES[i] : i \in 1..Len(STATUSES)}

generate_order_number(n) == <<"ORD", n>>

\* SQLite rowid of a new row: one more than the largest id in the table
NextId(table) ==
    IF DOMAIN table = {} THEN 1
    ELSE 1 + CHOOSE m \in DOMAIN table : \A i \in DOMAIN table : i <= m

\* A column without the UNIQUE constraint
NumberNeverTaken(number) == FALSE

\* UNIQUE constraint on order.order_number, checked when the INSERT is flushed
NumberTaken(number) == \E i \in DOMAIN orders : orders[i].order_number = number

----------------------------------------------------------------------------
(* Dates.  A date is the number of its day, counted from 1 January of the  *)
(* first year of the calendar, so that date - timedelta(days=n) is a       *)
(* subtraction; a DateTime column is kept to the day.                      *)

Years == {2023, 2024, 2025}
FirstYear == CHOOSE y \in Years : \A z \in Years : y <= z
LastYear == CHOOSE y \in Years : \A z \in Years : z <= y

IsLeap(y) == (y % 4 = 0 /\ y % 100 # 0) \/ y % 400 = 0
DaysInMonth(y, m) ==
    IF m = 2 THEN (IF IsLeap(y) THEN 29 ELSE 28)
    ELSE IF m \in {4, 6, 9, 11} THEN 30 ELSE 31

RECURSIVE DaysBefore(_, _)
DaysBefore(y, m) ==
    IF y = FirstYear /\ m = 1 THEN 0
    ELSE IF m = 1 THEN DaysBefore(y - 1, 12) + DaysInMonth(y - 1, 12)
    ELSE DaysBefore(y, m - 1) + DaysInMonth(y, m - 1)

\* datetime.date(y, m, d)
date(y, m, d) == DaysBefore(y, m) + d

LastDay == date(LastYear, 12, 31)

\* The year with a 29 February
LeapYear == CHOOSE y \in Years : IsLeap(y)

RECURSIVE FromDay(_, _, _)
FromDay(y, m, n) ==
    IF n <= DaysInMonth(y, m) THEN [year |-> y, month |-> m, day |-> n]
    ELSE IF m = 12 THEN FromDay(y + 1, 1, n - DaysInMonth(y, m))
    ELSE FromDay(y, m + 1, n - DaysInMonth(y, m))

\* Year, month and day of every date of the calendar
Calendar == [n \in 1..LastDay |-> FromDay(FirstYear, 1, n)]

\* date.replace(day=d)
replace(n, d) == date(Calendar[n].year, Calendar[n].month, d)

\* date.strftime('%b %d') and date.strftime('%b'): the year is not printed
strftime_b_d(n) == [b |-> Calendar[n].month, d |-> Calendar[n].day]
strftime_b(n) == Calendar[n].month

\* datetime.utcnow(), the default of the created_at columns.  The server's
\* zone is UTC: datetime.now() and datetime.utcnow() are in the same day.
utcnow == now

\* The day the server is started
StartDay == date(LeapYear, 3, 1)

----------------------------------------------------------------------------
(* The session of one add_order request *)

NoSession ==
    [err |-> FALSE, items |-> <<>>, total |-> 0,
     orig |-> <<>>, cur |-> <<>>]

\* product.stock_quantity as the session sees it: the loaded object if the
\* identity map holds it, else the row read from the database
ReadStock(st, prods, p) ==
    IF p \in DOMAIN st.cur THEN st.cur[p] ELSE prods[p].stock_quantity

\* The loop body without the floor at zero
LoopBodyNoFloor(st, prods, pid, qty) ==
    IF st.err THEN st
    ELSE IF ~(Truthy(pid) /\ Truthy(qty)) THEN st
    ELSE IF ~IsInt(pid) THEN [st EXCEPT !.err = TRUE]
    ELSE IF int(pid) \notin DOMAIN prods THEN st
    ELSE IF ~IsInt(qty) THEN [st EXCEPT !.err = TRUE]
    ELSE LET p == int(pid)
             q == int(qty)
             price == prods[p].price
         IN [err |-> FALSE,
             items |-> Append(st.items,
                 [product_id |-> p, quantity |-> q, unit_price |-> price]),
             total |-> st.total + price * q,
             orig |-> IF p \in DOMAIN st.orig THEN st.orig
                      ELSE (p :> prods[p].stock_quantity) @@ st.orig,
             cur |-> (p :> ReadStock(st, prods, p) - q) @@ st.cur]

\* The loop body adding the unit price, not the line's amount, to the total
LoopBodyUnitTotal(st, prods, pid, qty) ==
    IF st.err THEN st
    ELSE IF ~(Truthy(pid) /\ Truthy(qty)) THEN st
    ELSE IF ~IsInt(pid) THEN [st EXCEPT !.err = TRUE]
    ELSE IF int(pid) \notin DOMAIN prods THEN st
    ELSE IF ~IsInt(qty) THEN [st EXCEPT !.err = TRUE]
    ELSE LET p == int(pid)
             q == int(qty)
             price == prods[p].price
         IN [err |-> FALSE,
             items |-> Append(st.items,
                 [product_id |-> p, quantity |-> q, unit_price |-> price]),
             total |-> st.total + price,
             orig |-> IF p \in DOMAIN st.orig THEN st.orig
                      ELSE (p :> prods[p].stock_quantity) @@ st.orig,
             cur |-> (p :> Max(0, ReadStock(st, prods, p) - q)) @@ st.cur]

\* The loop body failing on a product that does not exist
LoopBodyMissingFails(st, prods, pid, qty) ==
    IF st.err THEN st
    ELSE IF ~(Truthy(pid) /\ Truthy(qty)) THEN st
    ELSE IF ~IsInt(pid) THEN [st EXCEPT !.err = TRUE]
    ELSE IF int(pid) \notin DOMAIN prods THEN [st EXCEPT !.err = TRUE]
    ELSE IF ~IsInt(qty) THEN [st EXCEPT !.err = TRUE]
    ELSE LET p == int(pid)
             q == int(qty)
             price == prods[p].price
         IN [err |-> FALSE,
             items |-> Append(st.items,
                 [product_id |-> p, quantity |-> q, unit_price |-> price]),
             total |-> st.total + price * q,
             orig |-> IF p \in DOMAIN st.orig THEN st.orig
                      ELSE (p :> prods[p].stock_quantity) @@ st.orig,
             cur |-> (p :> Max(0, ReadStock(st, prods, p) - q)) @@ st.cur]

\* One pass of the loop over the line items
LoopBody(st, prods, pid, qty) ==
    IF st.err THEN st
    ELSE IF ~(Truthy(pid) /\ Truthy(qty)) THEN st
    ELSE IF ~IsInt(pid) THEN [st EXCEPT !.err = TRUE]
    ELSE IF int(pid) \notin DOMAIN prods THEN st
    ELSE IF ~IsInt(qty) THEN [st EXCEPT !.err = TRUE]
    ELSE LET p == int(pid)
             q == int(qty)
             price == prods[p].price
         IN [err |-> FALSE,
             items |-> Append(st.items,
                 [product_id |-> p, quantity |-> q, unit_price |-> price]),
             total |-> st.total + price * q,
             orig |-> IF p \in DOMAIN st.orig THEN st.orig
                      ELSE (p :> prods[p].stock_quantity) @@ st.orig,
             cur |-> (p :> Max(0, ReadStock(st, prods, p) - q)) @@ st.cur]

RECURSIVE RunLoop(_, _, _, _)
RunLoop(st, prods, form, i) ==
    IF i > Len(form) THEN st
    ELSE RunLoop(LoopBody(st, prods, form[i][1], form[i][2]), prods, form, i + 1)

\* The UPDATEs of the commit: the loaded products whose stock changed
FlushProducts(st, prods) ==
    [p \in DOMAIN prods |->
        IF p \in DOMAIN st.cur /\ st.cur[p] # st.orig[p]
        THEN [prods[p] EXCEPT !.stock_quantity = st.cur[p]]
        ELSE prods[p]]

OrderRow(number, total) ==
    [order_number |-> number, status |-> "pending", total_amount |-> total,
     created_at |-> utcnow]

ItemRows(id, st) ==
    [i \in 1..Len(st.items) |->
        [order_id |-> id, product_id |-> st.items[i].product_id,
         quantity |-> st.items[i].quantity,
         unit_price |-> st.items[i].unit_price]]

\* The ledger row built before the total is known
SalesTransactionBeforeTotal(number, total) ==
    [transaction_type |-> "income", category |-> "Sales",
     amount |-> 0, reference |-> number]

SalesTransaction(number, total) ==
    [transaction_type |-> "income", category |-> "Sales",
     amount |-> total, reference |-> number]

\* db.session.commit() of add_order: everything pending becomes persistent
CommitOrder(id, number, st) ==
    /\ orders' = (id :> OrderRow(number, st.total)) @@ orders
    /\ order_items' = order_items \o ItemRows(id, st)
    /\ products' = FlushProducts(st, products)
    /\ transactions' = Append(transactions, SalesTransaction(number, st.total))

----------------------------------------------------------------------------
(* Requests *)

\* The two lists of a form, product_id[] and quantity[], of the same length n
Forms(P, Q, n) ==
    UNION {[1..k -> P] \X [1..k -> Q] : k \in 0..n}

Idle == [pc |-> "idle", number |-> <<>>, id |-> 0, form |-> <<>>, k |-> 0,
         st |-> NoSession]

NoLast == [op |-> "none", id |-> 0, form |-> <<>>, arg |-> "", prev |-> "",
           error |-> ""]

\* Nothing rendered yet
NoView == [rendered |-> FALSE]

StockWithin(prods) == \A p \in DOMAIN prods : prods[p].stock_quantity <= MaxStock

\* Prices of the catalog: ProductA at 10, ProductB at 5
InitialPrice(p) == IF p = 1 THEN 10 ELSE 5

\* The state after the tables are created, with the catalog entered
Catalog(stock) ==
    /\ products = [p \in ProductIds |->
          [price |-> InitialPrice(p), stock_quantity |-> stock[p]]]
    /\ orders = <<>>
    /\ order_items = <<>>
    /\ transactions = <<>>
    /\ req = [w \in Workers |-> Idle]
    /\ writer = 0
    /\ last = NoLast
    /\ now = StartDay
    /\ view = NoView

InitialStock(p) == MaxStock - 1

Init == Catalog([p \in ProductIds |-> InitialStock(p)])

\* Any catalog with stock levels within the bound
InitAnyStock == \E stock \in [ProductIds -> 0..MaxStock] : Catalog(stock)

\* get_or_404(id): the request ends with 404 when the table has no row id
NotFound(id, table) == IF id \in DOMAIN table THEN "" ELSE "NotFound"

\* add_order, POST, handled from start to end
AddOrder(pids, qtys, n, commit_ok) ==
    LET number == generate_order_number(n)
        form == zip(pids, qtys)
        id == NextId(orders)
        st == RunLoop(NoSession, products, form, 1)
        error == IF NumberTaken(number) THEN "IntegrityError"    \* at the flush
                 ELSE IF st.err THEN "ValueError"                \* in the loop
                 ELSE IF ~commit_ok THEN "OperationalError"      \* at the commit
                 ELSE ""
    IN /\ writer = 0
       /\ Len(transactions) < MaxTxns
       /\ StockWithin(FlushProducts(st, products))
       /\ IF error = "" THEN CommitOrder(id, number, st) ELSE UNCHANGED db
       /\ last' = [op |-> "add_order", id |-> IF error = "" THEN id ELSE 0,
                   form |-> form, arg |-> "", prev |-> "", error |-> error]
       /\ UNCHANGED <<req, writer, now, view>>

\* adjust_stock(id), POST: 404 when the product does not exist
AdjustStock(id, adjustment) ==
    /\ writer = 0
    /\ IF id \in DOMAIN products
       THEN /\ products[id].stock_quantity + adjustment <= MaxStock
            /\ products' = [products EXCEPT ![id].stock_quantity =
                   Max(0, products[id].stock_quantity + adjustment)]
       ELSE UNCHANGED products
    /\ last' = [op |-> "adjust_stock", id |-> id, form |-> <<>>,
                arg |-> "", prev |-> "", error |-> NotFound(id, products)]
    /\ UNCHANGED <<orders, order_items, transactions, req, writer, now, view>>

\* edit_product that carries the new price into the items sold
EditProductRepricing(id, price, stock_quantity) ==
    LET error == IF id \notin DOMAIN products THEN "NotFound"
                 ELSE IF ~IsFloat(price) \/ ~IsInt(stock_quantity) THEN "ValueError"
                 ELSE ""
    IN /\ writer = 0
       /\ IF error = ""
          THEN /\ int(stock_quantity) <= MaxStock
               /\ products' = [products EXCEPT ![id] =
                      [price |-> float(price),
                       stock_quantity |-> int(stock_quantity)]]
               /\ order_items' = [i \in 1..Len(order_items) |->
                      IF order_items[i].product_id = id
                      THEN [order_items[i] EXCEPT !.unit_price = float(price)]
                      ELSE order_items[i]]
          ELSE UNCHANGED <<products, order_items>>
       /\ last' = [op |-> "edit_product", id |-> id, form |-> <<>>,
                   arg |-> "", prev |-> "", error |-> error]
       /\ UNCHANGED <<orders, transactions, req, writer, now, view>>

\* edit_product(id), POST: 404 when the product does not exist, ValueError
\* when the price or the stock is not a number
EditProduct(id, price, stock_quantity) ==
    LET error == IF id \notin DOMAIN products THEN "NotFound"
                 ELSE IF ~IsFloat(price) \/ ~IsInt(stock_quantity) THEN "ValueError"
                 ELSE ""
    IN /\ writer = 0
       /\ IF error = ""
          THEN /\ int(stock_quantity) <= MaxStock
               /\ products' = [products EXCEPT ![id] =
                      [price |-> float(price),
                       stock_quantity |-> int(stock_quantity)]]
          ELSE UNCHANGED products
       /\ last' = [op |-> "edit_product", id |-> id, form |-> <<>>,
                   arg |-> "", prev |-> "", error |-> error]
       /\ UNCHANGED <<orders, order_items, transactions, req, writer, now, view>>

\* The place of a status in the life of an order
Rank(status) == CHOOSE i \in 1..Len(STATUSES) : STATUSES[i] = status

\* update_order_status that only moves an order forward
UpdateOrderStatusForward(id, new_status) ==
    /\ writer = 0
    /\ IF /\ id \in DOMAIN orders
          /\ new_status \in StatusSet
          /\ Rank(new_status) >= Rank(orders[id].status)
       THEN orders' = [orders EXCEPT ![id].status = new_status]
       ELSE UNCHANGED orders
    /\ last' = [op |-> "update_order_status", id |-> id, form |-> <<>>,
                arg |-> new_status,
                prev |-> IF id \in DOMAIN orders THEN orders[id].status ELSE "",
                error |-> NotFound(id, orders)]
    /\ UNCHANGED <<products, order_items, transactions, req, writer, now, view>>

\* update_order_status that gives the stock of a cancelled order back
UpdateOrderStatusRestock(id, new_status) ==
    /\ writer = 0
    /\ IF id \in DOMAIN orders /\ new_status \in StatusSet
       THEN /\ orders' = [orders EXCEPT ![id].status = new_status]
            /\ products' = [p \in DOMAIN products |->
                   IF /\ new_status = "cancelled"
                      /\ \E i \in 1..Len(order_items) :
                            /\ order_items[i].order_id = id
                            /\ order_items[i].product_id = p
                   THEN [products[p] EXCEPT !.stock_quantity = @ + 1]
                   ELSE products[p]]
       ELSE UNCHANGED <<orders, products>>
    /\ last' = [op |-> "update_order_status", id |-> id, form |-> <<>>,
                arg |-> new_status,
                prev |-> IF id \in DOMAIN orders THEN orders[id].status ELSE "",
                error |-> NotFound(id, orders)]
    /\ UNCHANGED <<order_items, transactions, req, writer, now, view>>

\* update_order_status that takes any value for a status
UpdateOrderStatusUnchecked(id, new_status) ==
    /\ writer = 0
    /\ IF id \in DOMAIN orders
       THEN orders' = [orders EXCEPT ![id].status = new_status]
       ELSE UNCHANGED orders
    /\ last' = [op |-> "update_order_status", id |-> id, form |-> <<>>,
                arg |-> new_status,
                prev |-> IF id \in DOMAIN orders THEN orders[id].status ELSE "",
                error |-> NotFound(id, orders)]
    /\ UNCHANGED <<products, order_items, transactions, req, writer, now, view>>

\* update_order_status(id), POST: 404 when the order does not exist
UpdateOrderStatus(id, new_status) ==
    /\ writer = 0
    /\ IF id \in DOMAIN orders /\ new_status \in StatusSet
       THEN orders' = [orders EXCEPT ![id].status = new_status]
       ELSE UNCHANGED orders
    /\ last' = [op |-> "update_order_status", id |-> id, form |-> <<>>,
                arg |-> new_status,
                prev |-> IF id \in DOMAIN orders THEN orders[id].status ELSE "",
                error |-> NotFound(id, orders)]
    /\ UNCHANGED <<products, order_items, transactions, req, writer, now, view>>

\* A relationship without the cascade: the items stay
CascadeNothing(id) == order_items

\* Order.items, cascade='all, delete-orphan': the order's items go with it
CascadeItems(id) ==
    LET Other(row) == row.order_id # id
    IN SelectSeq(order_items, Other)

\* delete_order(id), POST: 404 when the order does not exist
DeleteOrder(id) ==
    /\ writer = 0
    /\ IF id \in DOMAIN orders
       THEN /\ orders' = [i \in DOMAIN orders \ {id} |-> orders[i]]
            /\ order_items' = CascadeItems(id)
       ELSE UNCHANGED <<orders, order_items>>
    /\ last' = [op |-> "delete_order", id |-> id, form |-> <<>>,
                arg |-> "", prev |-> "", error |-> NotFound(id, orders)]
    /\ UNCHANGED <<products, transactions, req, writer, now, view>>

\* add_transaction, POST: ValueError when the amount is not a number
AddTransaction(transaction_type, category, amount_field) ==
    LET error == IF ~IsFloat(amount_field) THEN "ValueError" ELSE ""
    IN /\ writer = 0
       /\ Len(transactions) < MaxTxns
       /\ IF error = ""
          THEN transactions' = Append(transactions,
                   [transaction_type |-> transaction_type,
                    category |-> category,
                    amount |-> float(amount_field), reference |-> <<>>])
          ELSE UNCHANGED transactions
       /\ last' = [op |-> "add_transaction", id |-> 0, form |-> <<>>,
                   arg |-> transaction_type, prev |-> "", error |-> error]
       /\ UNCHANGED <<products, orders, order_items, req, writer, now, view>>

----------------------------------------------------------------------------
(* add_order as the steps of a request thread.  The database is the SQLite *)
(* file of SQLALCHEMY_DATABASE_URI: a connection starts its transaction at *)
(* its first INSERT/UPDATE/DELETE and holds the file's single write lock   *)
(* from there to its COMMIT or ROLLBACK; a second writer waits for the     *)
(* lock and gets "database is locked" when its wait times out.  Each       *)
(* request has its own session; a request that ends in an exception is     *)
(* rolled back when its session is removed.                                *)

\* order = Order(order_number=generate_order_number(), ...); db.session.add(order)
Begin(w, pids, qtys, n) ==
    /\ req[w].pc = "idle"
    /\ Len(transactions) < MaxTxns
    /\ req' = [req EXCEPT ![w] = [pc |-> "flush",
                  number |-> generate_order_number(n), id |-> 0,
                  form |-> zip(pids, qtys), k |-> 1, st |-> NoSession]]
    /\ UNCHANGED <<db, writer, last, now, view>>

\* The exception leaves add_order, and the stock written so far stays
AbortKeepingStock(w) ==
    /\ req' = [req EXCEPT ![w].pc = "failed"]
    /\ writer' = IF writer = w THEN 0 ELSE writer
    /\ products' = FlushProducts(req[w].st, products)
    /\ UNCHANGED <<orders, order_items, transactions, last, now, view>>

\* The exception leaves add_order; the session is rolled back
Abort(w) ==
    /\ req' = [req EXCEPT ![w].pc = "failed"]
    /\ writer' = IF writer = w THEN 0 ELSE writer
    /\ UNCHANGED <<db, last, now, view>>

\* A database whose writers do not exclude each other
LockAlwaysGranted(w) == TRUE

\* Whether the INSERT of worker w gets the write lock
LockGranted(w) == writer = 0

\* db.session.flush(): INSERT INTO "order"
Flush(w) ==
    /\ req[w].pc = "flush"
    /\ LockGranted(w)
    /\ IF NumberTaken(req[w].number)
       THEN Abort(w)
       ELSE /\ writer' = w
            /\ req' = [req EXCEPT ![w].pc = "loop", ![w].id = NextId(orders)]
            /\ UNCHANGED <<db, last, now, view>>

\* db.session.flush() while another connection holds the lock: the wait
\* times out with OperationalError
FlushTimeout(w) ==
    /\ req[w].pc = "flush"
    /\ ~LockGranted(w)
    /\ Abort(w)

\* One line item of the loop
Item(w) ==
    /\ req[w].pc = "loop"
    /\ req[w].k <= Len(req[w].form)
    /\ LET li == req[w].form[req[w].k]
           st == LoopBody(req[w].st, products, li[1], li[2])
       IN IF st.err
          THEN Abort(w)
          ELSE /\ StockWithin(FlushProducts(st, products))
               /\ req' = [req EXCEPT ![w].st = st, ![w].k = @ + 1]
               /\ UNCHANGED <<db, writer, last, now, view>>

\* order.total_amount = total; db.session.add(Transaction(...)); db.session.commit()
Commit(w, commit_ok) ==
    /\ req[w].pc = "loop"
    /\ req[w].k > Len(req[w].form)
    /\ IF commit_ok
       THEN /\ CommitOrder(req[w].id, req[w].number, req[w].st)
            /\ req' = [req EXCEPT ![w].pc = "done"]
            /\ writer' = IF writer = w THEN 0 ELSE writer
            /\ UNCHANGED <<last, now, view>>
       ELSE Abort(w)

\* The response is sent and the thread takes the next request
Respond(w) ==
    /\ req[w].pc \in {"done", "failed"}
    /\ req' = [req EXCEPT ![w] = Idle]
    /\ UNCHANGED <<db, writer, last, now, view>>

----------------------------------------------------------------------------
(* The dashboard: the aggregates of one GET / *)

RECURSIVE Sum(_, _)
Sum(f, S) ==
    IF S = {} THEN 0
    ELSE LET x == CHOOSE x \in S : TRUE
         IN f[x] + Sum(f, S \ {x})

\* db.func.sum(column) over the selected rows, .scalar(): NULL for no row
func_sum(f, S) == [null |-> S = {}, value |-> Sum(f, S)]

\* x or 0: None and 0 give 0
or0(x) == IF x.null \/ x.value = 0 THEN 0 ELSE x.value

\* range(hi, -1, -1)
RangeDown(hi) == [k \in 1..hi + 1 |-> hi + 1 - k]

total_amount == [id \in DOMAIN orders |-> orders[id].total_amount]

\* Transaction.amount, row by row
amount == [i \in 1..Len(transactions) |-> transactions[i].amount]

TransactionsOfType(type) ==
    {i \in 1..Len(transactions) : transactions[i].transaction_type = type}

\* The revenue with the cancelled orders counted in
RevenueWithCancelled == or0(func_sum(total_amount, DOMAIN orders))

\* 'total_revenue' of get_dashboard_stats
total_revenue ==
    or0(func_sum(total_amount,
        {id \in DOMAIN orders : orders[id].status # "cancelled"}))

get_dashboard_stats ==
    [total_orders |-> Cardinality(DOMAIN orders),
     total_revenue |-> total_revenue,
     pending_orders |->
         Cardinality({id \in DOMAIN orders : orders[id].status = "pending"}),
     total_products |-> Cardinality(DOMAIN products),
     total_income |-> or0(func_sum(amount, TransactionsOfType("income"))),
     total_expense |-> or0(func_sum(amount, TransactionsOfType("expense"))),
     net_profit |-> or0(func_sum(amount, TransactionsOfType("income")))
                    - or0(func_sum(amount, TransactionsOfType("expense")))]

\* The daily sales with the cancelled orders counted in
SalesChartWithCancelled ==
    [k \in 1..Len(RangeDown(6)) |->
        LET i == RangeDown(6)[k]
            day == now - i
            daily_sales == or0(func_sum(total_amount,
                {id \in DOMAIN orders : orders[id].created_at = day}))
        IN [date |-> strftime_b_d(day), sales |-> daily_sales]]

\* Amounts are whole units, which round(x, 2) leaves as they are
get_sales_chart_data ==
    [k \in 1..Len(RangeDown(6)) |->
        LET i == RangeDown(6)[k]
            day == now - i
            daily_sales == or0(func_sum(total_amount,
                {id \in DOMAIN orders :
                    /\ orders[id].created_at = day
                    /\ orders[id].status # "cancelled"}))
        IN [date |-> strftime_b_d(day), sales |-> daily_sales]]

\* str.capitalize() of the five statuses
capitalize(s) ==
    CASE s = "pending" -> "Pending"
      [] s = "confirmed" -> "Confirmed"
      [] s = "shipped" -> "Shipped"
      [] s = "delivered" -> "Delivered"
      [] s = "cancelled" -> "Cancelled"

get_order_status_data ==
    [k \in 1..Len(STATUSES) |->
        [status |-> capitalize(STATUSES[k]),
         count |-> Cardinality(
             {id \in DOMAIN orders : orders[id].status = STATUSES[k]})]]

\* Product JOIN OrderItem GROUP BY Product.id: the products that have items,
\* each with the sum of the quantity of its items
ItemsOfProduct(p) == {i \in 1..Len(order_items) : order_items[i].product_id = p}
quantity == [i \in 1..Len(order_items) |-> order_items[i].quantity]
Sold ==
    [p \in {q \in DOMAIN products : ItemsOfProduct(q) # {}} |->
        Sum(quantity, ItemsOfProduct(p))]

\* ORDER BY sum DESC: the groups by decreasing sum; SQLite gives groups of
\* the same sum in an order of its choosing, here by their rank in ties
RECURSIVE order_by_desc(_, _, _)
order_by_desc(sold, S, ties) ==
    IF S = {} THEN <<>>
    ELSE LET first == CHOOSE p \in S : \A q \in S :
                 \/ sold[p] > sold[q]
                 \/ sold[p] = sold[q] /\ ties[p] <= ties[q]
         IN <<first>> \o order_by_desc(sold, S \ {first}, ties)

\* A query without the limit
NoLimit(seq, n) == seq

\* .limit(n)
limit(seq, n) == SubSeq(seq, 1, Min(n, Len(seq)))

\* The product's id stands for its name
get_top_products(ties) ==
    LET sold == Sold
        results == limit(order_by_desc(sold, DOMAIN sold, ties), 5)
    IN [k \in 1..Len(results) |->
           [name |-> results[k],
            sold |-> IF sold[results[k]] = 0 THEN 0 ELSE sold[results[k]]]]

get_monthly_revenue ==
    [k \in 1..Len(RangeDown(5)) |->
        LET i == RangeDown(5)[k]
            day == now - i * 30
            month_start == replace(day, 1)
            next_month == IF i > 0 THEN replace(month_start + 32, 1)
                          ELSE now + 1
            monthly_revenue == or0(func_sum(total_amount,
                {id \in DOMAIN orders :
                    /\ orders[id].created_at >= month_start
                    /\ orders[id].created_at < next_month
                    /\ orders[id].status # "cancelled"}))
        IN [month |-> strftime_b(month_start), revenue |-> monthly_revenue]]

\* The ranks SQLite can give the groups of a set: every order of them
Orderings(S) == Permutations(S)

\* dashboard(), GET /
Dashboard(ties) ==
    /\ view' = [rendered |-> TRUE,
                stats |-> get_dashboard_stats,
                sales_data |-> get_sales_chart_data,
                order_status_data |-> get_order_status_data,
                top_products |-> get_top_products(ties),
                monthly_revenue |-> get_monthly_revenue]
    /\ UNCHANGED <<db, req, writer, last, now>>

----------------------------------------------------------------------------
(* Inputs and specifications *)

Adjustments == {-2, -1, 1}
OrderIds == 1..3
StatusArgs == StatusSet \cup {"refunded"}

\* The form with the line items (product id, quantity) of a list
FormOf(lines) ==
    <<[i \in 1..Len(lines) |-> lines[i][1]], [i \in 1..Len(lines) |-> lines[i][2]]>>

\* Forms of the general specification: no line item, or one
SmallForms ==
    {FormOf(<<>>), FormOf(<<<<Num(1), Num(2)>>>>), FormOf(<<<<Num(2), Num(1)>>>>)}

\* Forms of every shape: product 3 does not exist
PidVals == {Num(1), Num(2), Num(3), Junk}
QtyVals == {Num(-1), Num(0), Num(2), Num(3), Blank}
AllForms == Forms(PidVals, QtyVals, MaxItems)

\* Forms of the stock specification
StockForms ==
    {FormOf(<<>>)} \cup
    {FormOf(<<<<p, q>>>>) : p \in {Num(1), Num(2)},
                            q \in {Num(-1), Num(0), Num(2), Num(MaxStock + 1)}}

\* Forms of the concurrent requests
ConcForms ==
    {FormOf(<<<<Num(1), Num(1)>>>>),
     FormOf(<<<<Num(1), Num(2)>>>>),
     FormOf(<<<<Num(2), Num(1)>>, <<Num(1), Num(1)>>>>),
     FormOf(<<<<Num(1), Num(2)>>, <<Num(2), Junk>>>>)}

SomeAddOrder ==
    \E f \in SmallForms, n \in RandSuffixes, c \in BOOLEAN :
        AddOrder(f[1], f[2], n, c)
SomeAdjustStock ==
    \E id \in ProductIds \cup {3}, a \in Adjustments : AdjustStock(id, a)
SomeUpdateOrderStatus ==
    \E id \in OrderIds, s \in StatusArgs : UpdateOrderStatus(id, s)
SomeDeleteOrder ==
    \E id \in OrderIds : DeleteOrder(id)

SomeEditProduct ==
    \E id \in ProductIds \cup {3}, price \in {Num(20), Junk},
       stock \in {Num(0), Num(MaxStock)} : EditProduct(id, price, stock)
SomeAddTransaction ==
    \E type \in {"income", "expense"}, a \in {Num(-5), Num(7), Junk} :
        AddTransaction(type, "Rent", a)
SomeDashboard ==
    \E ties \in Orderings(DOMAIN Sold) : Dashboard(ties)

Next ==
    \/ SomeAddOrder
    \/ SomeAdjustStock
    \/ SomeEditProduct
    \/ SomeUpdateOrderStatus
    \/ SomeDeleteOrder
    \/ SomeAddTransaction
    \/ SomeDashboard

Spec == Init /\ [][Next]_vars

\* Orders and their life: creation, status updates, deletion
NextLife == SomeAddOrder \/ SomeUpdateOrderStatus \/ SomeDeleteOrder
SpecLife == Init /\ [][NextLife]_vars

\* Orders created, cancelled, taken out of cancelled and deleted
RevenueStatusArgs == {"confirmed", "cancelled", "refunded"}
NextRevenue ==
    \/ \E f \in SmallForms, n \in RandSuffixes : AddOrder(f[1], f[2], n, TRUE)
    \/ \E id \in OrderIds, s \in RevenueStatusArgs : UpdateOrderStatus(id, s)
    \/ SomeDeleteOrder
SpecRevenue == Init /\ [][NextRevenue]_vars

\* Order creations and stock adjustments
NextStock ==
    \/ \E f \in StockForms, n \in RandSuffixes, c \in BOOLEAN :
          AddOrder(f[1], f[2], n, c)
    \/ SomeAdjustStock
SpecStock == Init /\ [][NextStock]_vars

\* One order creation, with a form of any shape, on any catalog
NextForm ==
    /\ last.op = "none"
    /\ \E f \in AllForms, n \in RandSuffixes, c \in BOOLEAN :
          AddOrder(f[1], f[2], n, c)
SpecForm == InitAnyStock /\ [][NextForm]_vars

\* Request threads creating orders concurrently
NextConc ==
    \E w \in Workers :
        \/ \E f \in ConcForms, n \in RandSuffixes : Begin(w, f[1], f[2], n)
        \/ Flush(w)
        \/ FlushTimeout(w)
        \/ Item(w)
        \/ \E c \in BOOLEAN : Commit(w, c)
        \/ Respond(w)
SpecConc == Init /\ [][NextConc]_vars

\* Order creations among price edits, stock adjustments and status updates
PriceForms == {FormOf(<<<<Num(1), Num(1)>>>>), FormOf(<<<<Num(2), Num(1)>>>>)}
PriceArgs == {Num(20), Junk}
NextPrice ==
    \/ \E f \in PriceForms, n \in RandSuffixes : AddOrder(f[1], f[2], n, TRUE)
    \/ \E id \in ProductIds \cup {3}, price \in PriceArgs :
          EditProduct(id, price, Num(MaxStock - 1))
    \/ AdjustStock(1, -1)
    \/ \E id \in OrderIds : UpdateOrderStatus(id, "cancelled")
SpecPrice == Init /\ [][NextPrice]_vars

\* Order creations and manual postings to the ledger
LedgerForms ==
    {FormOf(<<>>), FormOf(<<<<Num(1), Num(2)>>>>), FormOf(<<<<Num(1), Num(-1)>>>>),
     FormOf(<<<<Num(2), Num(1)>>, <<Num(1), Num(-1)>>>>)}
AmountArgs == {Num(-5), Num(0), Num(7), Junk}
NextLedger ==
    \/ \E f \in LedgerForms, n \in RandSuffixes, c \in BOOLEAN :
          AddOrder(f[1], f[2], n, c)
    \/ \E type \in {"income", "expense"}, category \in {"Sales", "Rent"},
          a \in AmountArgs : AddTransaction(type, category, a)
SpecLedger == Init /\ [][NextLedger]_vars

\* A database in use: a catalog, orders entered over the days, their items
Stored(prods, os, items, day) ==
    /\ products = prods
    /\ orders = os
    /\ order_items = items
    /\ transactions = <<>>
    /\ req = [w \in Workers |-> Idle]
    /\ writer = 0
    /\ last = NoLast
    /\ now = day
    /\ view = NoView

\* The orders 1..n with their creation days, statuses and totals drawn from sets
OrderTables(n, days, statuses, totals) ==
    UNION {[1..k -> [order_number : {<<>>}, status : statuses,
                     total_amount : totals, created_at : days]] : k \in 0..n}

\* Each order with the number of its own
Numbered(os) ==
    [id \in DOMAIN os |->
        [os[id] EXCEPT !.order_number = generate_order_number(1000 + id)]]

InitialCatalog ==
    [p \in ProductIds |->
        [price |-> InitialPrice(p), stock_quantity |-> InitialStock(p)]]

\* The dashboard of a week: on days across the end of a month, of February
\* and of the year, with orders from the eve of the week to the day after
ChartDays == {date(LeapYear, 1, 3), date(LeapYear, 3, 1), date(LeapYear, 7, 15)}
InitChart ==
    \E day \in ChartDays :
        \E os \in OrderTables(2, (day - 7)..(day + 1),
                              {"pending", "delivered", "cancelled"}, {0, 10, 15}) :
            Stored(InitialCatalog, Numbered(os), <<>>, day)
\* One rendering of the dashboard
NextChart ==
    /\ ~view.rendered
    /\ \E ties \in Orderings(DOMAIN Sold) : Dashboard(ties)
SpecChart == InitChart /\ [][NextChart]_vars

\* The dashboard of every day of a year, with an order of the last half year
MonthlyDays == date(LeapYear, 1, 1)..date(LeapYear, 12, 31)
InitMonthly ==
    \E day \in MonthlyDays :
        \E os \in OrderTables(1, (day - 185)..day, {"pending", "cancelled"}, {10}) :
            Stored(InitialCatalog, Numbered(os), <<>>, day)
NextMonthly ==
    /\ ~view.rendered
    /\ \E ties \in Orderings(DOMAIN Sold) : Dashboard(ties)
SpecMonthly == InitMonthly /\ [][NextMonthly]_vars

\* The dashboard of a shop with six products, a delivered order and a
\* cancelled one: products 1, 3, 5 sold in the first, 2, 4, 6 in the second,
\* product 6 perhaps in both, products 1 and 2 perhaps not at all
TopProductIds == 1..6
TopCatalog == [p \in TopProductIds |-> [price |-> 5, stock_quantity |-> 0]]
TopOrderOf(p) == 2 - (p % 2)
RECURSIVE TopItems(_, _)
TopItems(q, p) ==
    IF p = 0 THEN <<>>
    ELSE TopItems(q, p - 1) \o
         (IF q[p] = 0 THEN <<>>
          ELSE <<[order_id |-> TopOrderOf(p), product_id |-> p,
                  quantity |-> q[p], unit_price |-> TopCatalog[p].price]>>)
TopOrders(items) ==
    LET Of(id) == SelectSeq(items, LAMBDA row : row.order_id = id)
        Amount(rows) == [i \in 1..Len(rows) |-> rows[i].quantity * rows[i].unit_price]
        Status(id) == IF id = 1 THEN "delivered" ELSE "cancelled"
    IN [id \in {1, 2} |->
           [order_number |-> generate_order_number(1000 + id),
            status |-> Status(id),
            total_amount |-> Sum(Amount(Of(id)), 1..Len(Of(id))),
            created_at |-> StartDay]]
InitTop ==
    \E q \in [TopProductIds -> 0..2], again \in BOOLEAN :
        LET items == TopItems(q, 6) \o
                     (IF again
                      THEN <<[order_id |-> 1, product_id |-> 6, quantity |-> 1,
                              unit_price |-> TopCatalog[6].price]>>
                      ELSE <<>>)
        IN /\ \A p \in TopProductIds : p > 2 => q[p] > 0
           /\ Stored(TopCatalog, TopOrders(items), items, StartDay)
NextTop ==
    /\ ~view.rendered
    /\ \E ties \in Orderings(DOMAIN Sold) : Dashboard(ties)
SpecTop == InitTop /\ [][NextTop]_vars

----------------------------------------------------------------------------
(* Properties *)

Ok(l) == l.error = ""

\* The rows of order id in the order_item table, in order
ItemsOf(id) ==
    LET Mine(row) == row.order_id = id
    IN SelectSeq(order_items, Mine)

RECURSIVE SumAmounts(_)
SumAmounts(rows) ==
    IF rows = <<>> THEN 0
    ELSE Head(rows).quantity * Head(rows).unit_price + SumAmounts(Tail(rows))

\* The ledger rows of type income with a reference
IncomeWith(reference) ==
    {i \in 1..Len(transactions) :
        /\ transactions[i].transaction_type = "income"
        /\ transactions[i].reference = reference}

\* C1: after any sequence of order creations and stock adjustments, from a
\* catalog with no negative stock, no product has a negative stock_quantity.
C1_StockNeverNegative ==
    \A p \in DOMAIN products : products[p].stock_quantity >= 0

\* An order for more than any stock level in the bound has floored the stock
C1_Witness ==
    /\ last.op = "add_order"
    /\ Ok(last)
    /\ last.form = <<<<Num(1), Num(MaxStock + 1)>>>>
    /\ products[1].stock_quantity = 0

\* C2 (as amended): an add_order that commits appends exactly one row to the
\* ledger, of type income and category Sales, whose reference is the new
\* order's order_number and whose amount is its total_amount.
C2_AppendsOneIncome ==
    [][(last'.op = "add_order" /\ Ok(last')) =>
          /\ last'.id \in DOMAIN orders'
          /\ transactions' = Append(transactions,
                 [transaction_type |-> "income", category |-> "Sales",
                  amount |-> orders'[last'.id].total_amount,
                  reference |-> orders'[last'.id].order_number])]_vars

\* An order with a positive total whose number an earlier, deleted order had
C2_Witness ==
    /\ last.op = "add_order"
    /\ Ok(last)
    /\ orders[last.id].total_amount > 0
    /\ Cardinality(IncomeWith(orders[last.id].order_number)) = 2

\* C2 (as stated): right after add_order commits, the ledger holds exactly
\* one income Transaction whose reference is the new order's order_number,
\* and its amount is the order's total_amount.
C2_ExactlyOneIncome ==
    (last.op = "add_order" /\ Ok(last)) =>
        LET number == orders[last.id].order_number
        IN /\ Cardinality(IncomeWith(number)) = 1
           /\ \A i \in IncomeWith(number) :
                  transactions[i].amount = orders[last.id].total_amount

\* C3: right after add_order commits, the order's total_amount is the sum of
\* quantity * unit_price over its persisted items, each unit_price being the
\* product's price at that moment.
C3_TotalIsSumOfItems ==
    (last.op = "add_order" /\ Ok(last)) =>
        /\ orders[last.id].total_amount = SumAmounts(ItemsOf(last.id))
        /\ \A i \in 1..Len(ItemsOf(last.id)) :
               ItemsOf(last.id)[i].unit_price =
                   products[ItemsOf(last.id)[i].product_id].price

\* An order with the same product in two line items
C3_Witness ==
    /\ last.op = "add_order"
    /\ Ok(last)
    /\ Len(ItemsOf(last.id)) >= 2
    /\ ItemsOf(last.id)[1].product_id = ItemsOf(last.id)[2].product_id
    /\ ItemsOf(last.id)[1].quantity > 0
    /\ ItemsOf(last.id)[2].quantity > 0

\* The stock s of product p after the line items of a form, from line i on,
\* are applied one after the other
RECURSIVE StockAfter(_, _, _, _)
StockAfter(s, form, p, i) ==
    IF i > Len(form) THEN s
    ELSE LET pid == form[i][1]
             qty == form[i][2]
             hit == IsInt(pid) /\ IsInt(qty) /\ int(pid) = p
         IN StockAfter(IF hit THEN Max(0, s - int(qty)) ELSE s, form, p, i + 1)

\* The stock s of product p after the decrements of persisted item rows
RECURSIVE StockAfterRows(_, _, _)
StockAfterRows(s, rows, p) ==
    IF rows = <<>> THEN s
    ELSE StockAfterRows(
             IF Head(rows).product_id = p
             THEN Max(0, s - Head(rows).quantity) ELSE s,
             Tail(rows), p)

Committing(w) == req[w].pc = "loop" /\ req'[w].pc = "done"
Failing(w) == req[w].pc # "failed" /\ req'[w].pc = "failed"

\* Every order has a ledger row with its number and its total
OrdersHaveLedgerEntry ==
    \A id \in DOMAIN orders :
        \E i \in 1..Len(transactions) :
            /\ transactions[i].reference = orders[id].order_number
            /\ transactions[i].amount = orders[id].total_amount

\* The order of worker w, its items, its stock and its ledger row persist
AllPersisted(w) ==
    LET id == req[w].id
        st == req[w].st
    IN /\ id \notin DOMAIN orders
       /\ DOMAIN orders' = DOMAIN orders \cup {id}
       /\ \A i \in DOMAIN orders : orders'[i] = orders[i]
       /\ orders'[id] = [order_number |-> req[w].number, status |-> "pending",
                         total_amount |-> st.total, created_at |-> now]
       /\ order_items' = order_items \o
              [i \in 1..Len(st.items) |->
                  [order_id |-> id, product_id |-> st.items[i].product_id,
                   quantity |-> st.items[i].quantity,
                   unit_price |-> st.items[i].unit_price]]
       /\ \A p \in DOMAIN products :
              products'[p].stock_quantity =
                  IF p \in DOMAIN st.cur THEN st.cur[p]
                  ELSE products[p].stock_quantity
       /\ transactions' = Append(transactions,
              [transaction_type |-> "income", category |-> "Sales",
               amount |-> st.total, reference |-> req[w].number])

\* C4: order creation is atomic.  A request that fails, in the loop, at the
\* flush or at the commit, persists nothing; one that commits persists the
\* order, its items, the stock and the ledger row in one step; no other step
\* changes the database, and every persisted order has its ledger row.
C4_Atomic ==
    [][/\ \A w \in Workers : Failing(w) => UNCHANGED db
       /\ \A w \in Workers : Committing(w) => AllPersisted(w)
       /\ (db' # db) => \E w \in Workers : Committing(w)
       /\ OrdersHaveLedgerEntry']_vars

\* A request failed after its session had written a stock the database
\* does not hold
C4_Witness ==
    \E w \in Workers :
        /\ req[w].pc = "failed"
        /\ \E p \in DOMAIN req[w].st.cur :
               req[w].st.cur[p] # products[p].stock_quantity
        /\ orders = <<>>
        /\ transactions = <<>>

\* C5: with order creations running concurrently, the stock of every product
\* is never negative and is the initial stock with the decrements of all
\* persisted orders applied one after the other, in the order they committed.
C5_NoLostDecrement ==
    \A p \in DOMAIN products :
        /\ products[p].stock_quantity >= 0
        /\ products[p].stock_quantity =
               StockAfterRows(InitialStock(p), order_items, p)

\* Both threads have committed an order that decrements product 1
C5_Witness ==
    /\ \A w \in Workers : req[w].pc = "done"
    /\ Cardinality(DOMAIN orders) = 2
    /\ \A id \in DOMAIN orders :
           \E i \in 1..Len(ItemsOf(id)) :
               ItemsOf(id)[i].product_id = 1 /\ ItemsOf(id)[i].quantity > 0

\* A form with no line item, or with a quantity that is zero or negative
BadForm(form) ==
    \/ form = <<>>
    \/ \E i \in 1..Len(form) : IsInt(form[i][2]) /\ int(form[i][2]) <= 0

\* C6: add_order with no line item, or with a line item whose quantity is
\* zero or negative, is rejected and changes nothing in the database.
C6_RejectsBadForms ==
    [][(last'.op = "add_order" /\ BadForm(last'.form)) =>
          (~Ok(last') /\ UNCHANGED db)]_vars

\* The line items of a form add_order keeps: both fields given, product found
KeptLines(form) ==
    LET Kept(li) == /\ IsInt(li[1]) /\ IsInt(li[2])
                    /\ int(li[1]) \in DOMAIN products
    IN SelectSeq(form, Kept)

NoJunk(form) ==
    \A i \in 1..Len(form) : form[i][1].k # "junk" /\ form[i][2].k # "junk"

HasMissing(form) ==
    \E i \in 1..Len(form) :
        /\ IsInt(form[i][1]) /\ IsInt(form[i][2])
        /\ int(form[i][1]) \notin DOMAIN products

RECURSIVE SumLines(_)
SumLines(lines) ==
    IF lines = <<>> THEN 0
    ELSE products[int(Head(lines)[1])].price * int(Head(lines)[2])
         + SumLines(Tail(lines))

\* C7: add_order with line items of which some name a product that does not
\* exist raises no error for them; the order it creates has an OrderItem for
\* exactly the line items whose product exists, its total_amount and the
\* amount of its Transaction count only those, and only their stock goes down.
C7_MissingProductSkipped ==
    [][(last'.op = "add_order" /\ NoJunk(last'.form) /\ HasMissing(last'.form)) =>
          /\ last'.error # "ValueError"
          /\ Ok(last') =>
                LET id == last'.id
                    kept == KeptLines(last'.form)
                IN /\ id \in DOMAIN orders' \ DOMAIN orders
                   /\ order_items' = order_items \o
                          [i \in 1..Len(kept) |->
                              [order_id |-> id,
                               product_id |-> int(kept[i][1]),
                               quantity |-> int(kept[i][2]),
                               unit_price |-> products[int(kept[i][1])].price]]
                   /\ orders'[id].total_amount = SumLines(kept)
                   /\ transactions'[Len(transactions')].amount = SumLines(kept)
                   /\ \A p \in DOMAIN products :
                          products'[p].stock_quantity =
                              StockAfter(products[p].stock_quantity, kept, p, 1)]_vars

\* An order from a form naming product 3, which does not exist, and product 1
C7_Witness ==
    /\ last.op = "add_order"
    /\ Ok(last)
    /\ last.form = <<<<Num(3), Num(2)>>, <<Num(1), Num(2)>>>>
    /\ Len(ItemsOf(last.id)) = 1
    /\ orders[last.id].total_amount = 20
    /\ transactions[Len(transactions)].amount = 20

\* C8: setting an order's status to cancelled changes that order's status and
\* nothing else: stock, ledger, order items, the order's number and total and
\* the other orders stay as they are.
C8_CancelChangesOnlyStatus ==
    [][(last'.op = "update_order_status" /\ last'.arg = "cancelled") =>
          /\ products' = products
          /\ transactions' = transactions
          /\ order_items' = order_items
          /\ DOMAIN orders' = DOMAIN orders
          /\ \A id \in DOMAIN orders :
                 /\ orders'[id].order_number = orders[id].order_number
                 /\ orders'[id].total_amount = orders[id].total_amount
                 /\ id # last'.id => orders'[id] = orders[id]]_vars

\* An order that took stock and posted income was cancelled
C8_Witness ==
    /\ last.op = "update_order_status"
    /\ Ok(last)
    /\ last.arg = "cancelled"
    /\ last.prev # "cancelled"
    /\ orders[last.id].status = "cancelled"
    /\ Len(ItemsOf(last.id)) > 0
    /\ \E p \in DOMAIN products : products[p].stock_quantity < InitialStock(p)
    /\ \E i \in IncomeWith(orders[last.id].order_number) :
           transactions[i].amount > 0

\* C9: delete_order removes the order and its OrderItems and nothing else:
\* the items of other orders, the other orders, the stock and the ledger,
\* with the Transaction of the deleted order, stay as they are.
C9_DeleteRemovesOrderAndItems ==
    [][(last'.op = "delete_order" /\ Ok(last')) =>
          LET id == last'.id
              Other(row) == row.order_id # id
          IN /\ id \in DOMAIN orders
             /\ DOMAIN orders' = DOMAIN orders \ {id}
             /\ \A i \in DOMAIN orders' : orders'[i] = orders[i]
             /\ \A i \in 1..Len(order_items') : order_items'[i].order_id # id
             /\ order_items' = SelectSeq(order_items, Other)
             /\ products' = products
             /\ transactions' = transactions
             /\ \E i \in 1..Len(transactions') :
                    transactions'[i].reference = orders[id].order_number]_vars

\* Of two orders with an item each, one was deleted: the other and its item
\* are there, and so are both ledger rows
C9_Witness ==
    /\ last.op = "delete_order"
    /\ Ok(last)
    /\ Cardinality(DOMAIN orders) = 1
    /\ Len(order_items) = 1
    /\ Len(transactions) = 2
    /\ \A i \in 1..Len(transactions) : transactions[i].amount > 0
    /\ \E i \in 1..Len(transactions) : ~NumberTaken(transactions[i].reference)

\* C10: update_order_status with any of the five statuses sets the order's
\* status to it, whatever the status was before.
C10_AnyTransition ==
    (last.op = "update_order_status" /\ Ok(last) /\ last.arg \in StatusSet) =>
        /\ last.prev \in StatusSet
        /\ orders[last.id].status = last.arg

\* A delivered order was set back to pending
C10_Witness ==
    /\ last.op = "update_order_status"
    /\ Ok(last)
    /\ last.prev = "delivered"
    /\ last.arg = "pending"
    /\ orders[last.id].status = "pending"

\* C11: an OrderItem keeps its unit_price.  Under order creations, price
\* edits, stock adjustments and status updates every existing item stays as
\* it is, and a new item has the price its product had when the order was
\* created; so every item always has its product's price of that moment.
C11_UnitPriceFrozen ==
    [][/\ Len(order_items') >= Len(order_items)
       /\ \A i \in 1..Len(order_items) :
              /\ order_items'[i].order_id = order_items[i].order_id
              /\ order_items'[i].product_id = order_items[i].product_id
              /\ order_items'[i].unit_price = order_items[i].unit_price
       /\ \A i \in (Len(order_items) + 1)..Len(order_items') :
              order_items'[i].unit_price =
                  products[order_items'[i].product_id].price]_vars

\* A product was sold, its price was edited, and it was sold again: the first
\* item has the old price, the second the new one
C11_Witness ==
    /\ last.op = "add_order"
    /\ Ok(last)
    /\ \E i \in 1..Len(order_items) : \E j \in 1..Len(order_items) :
           /\ i < j
           /\ order_items[i].product_id = order_items[j].product_id
           /\ order_items[i].unit_price = InitialPrice(order_items[i].product_id)
           /\ order_items[j].unit_price # order_items[i].unit_price
           /\ order_items[j].unit_price = products[order_items[j].product_id].price

\* C12: no two persisted orders have the same order_number, also when
\* generate_order_number returns a number that an existing order has.
C12_OrderNumbersUnique ==
    \A i \in DOMAIN orders : \A j \in DOMAIN orders :
        i # j => orders[i].order_number # orders[j].order_number

\* An add_order with a line item drew the number of the persisted order and
\* failed at the flush
C12_Witness ==
    /\ last.op = "add_order"
    /\ last.error = "IntegrityError"
    /\ last.form # <<>>
    /\ Cardinality(DOMAIN orders) = 1
    /\ \E n \in RandSuffixes : NumberTaken(generate_order_number(n))

\* C13: after any sequence of order creations and manual postings, for any
\* quantities and amounts the requests supply, every Transaction of the
\* ledger has amount >= 0.
C13_AmountsNonNegative ==
    \A i \in 1..Len(transactions) : transactions[i].amount >= 0

\* The sum of total_amount of a set of orders, from the last one back
RECURSIVE TotalOf(_)
TotalOf(ids) ==
    IF ids = {} THEN 0
    ELSE LET m == CHOOSE m \in ids : \A i \in ids : i <= m
         IN TotalOf(ids \ {m}) + orders[m].total_amount

\* C14: get_sales_chart_data returns exactly 7 entries, one per calendar day
\* from 6 days ago to today in chronological order; the value of each is the
\* sum of total_amount of the orders created on that day that are not
\* cancelled, 0 when there is none.
C14_SevenDaySeries ==
    view.rendered =>
        /\ Len(view.sales_data) = 7
        /\ \A k \in 1..7 :
              LET day == now - 7 + k
                  on_day == {id \in DOMAIN orders :
                                /\ orders[id].created_at = day
                                /\ orders[id].status # "cancelled"}
              IN /\ view.sales_data[k].date.b = Calendar[day].month
                 /\ view.sales_data[k].date.d = Calendar[day].day
                 /\ view.sales_data[k].sales = TotalOf(on_day)

\* The week across the end of February, with two orders three days ago, one
\* of them cancelled
C14_Witness ==
    /\ view.rendered
    /\ now = date(LeapYear, 3, 1)
    /\ DOMAIN orders = {1, 2}
    /\ orders[1].created_at = now - 3 /\ orders[1].status = "cancelled"
    /\ orders[1].total_amount = 15
    /\ orders[2].created_at = now - 3 /\ orders[2].status = "pending"
    /\ orders[2].total_amount = 10
    /\ view.sales_data[4].sales = 10
    /\ view.sales_data[7].sales = 0

\* The months counted from year 0
MonthIndex(n) == Calendar[n].year * 12 + Calendar[n].month - 1

\* C15: get_monthly_revenue returns 6 buckets, the 6 consecutive calendar
\* months that end with the current month, in chronological order, and the
\* revenue of each is the sum of total_amount of the orders created in that
\* calendar month that are not cancelled: no month twice, none skipped, no
\* order in two buckets or in none.
C15_SixCalendarMonths ==
    view.rendered =>
        /\ Len(view.monthly_revenue) = 6
        /\ \A k \in 1..6 :
              LET m == MonthIndex(now) - 6 + k
                  in_month == {id \in DOMAIN orders :
                                  /\ MonthIndex(orders[id].created_at) = m
                                  /\ orders[id].status # "cancelled"}
              IN /\ view.monthly_revenue[k].month = (m % 12) + 1
                 /\ view.monthly_revenue[k].revenue = TotalOf(in_month)

\* total_revenue is the sum of total_amount of the orders not cancelled
RevenueIsSum ==
    total_revenue =
        TotalOf({id \in DOMAIN orders : orders[id].status # "cancelled"})

\* C16: after any sequence of order creations, status updates and deletions
\* the dashboard's total_revenue is the sum of total_amount of the existing
\* orders that are not cancelled, 0 without any; cancelling an order lowers
\* it by the order's total_amount, and taking the order out of cancelled
\* raises it by the same amount.
C16_TotalRevenue ==
    [][/\ RevenueIsSum
       /\ RevenueIsSum'
       /\ DOMAIN orders' = {} => total_revenue' = 0
       /\ (last'.op = "update_order_status" /\ Ok(last') /\ last'.arg \in StatusSet) =>
             LET t == orders[last'.id].total_amount
             IN /\ (last'.prev # "cancelled" /\ last'.arg = "cancelled") =>
                       total_revenue' = total_revenue - t
                /\ (last'.prev = "cancelled" /\ last'.arg # "cancelled") =>
                       total_revenue' = total_revenue + t
                /\ ((last'.prev = "cancelled") <=> (last'.arg = "cancelled")) =>
                       total_revenue' = total_revenue]_vars

\* Of two orders one was cancelled and is now taken out of cancelled: the
\* revenue is the total of both
C16_Witness ==
    /\ last.op = "update_order_status"
    /\ Ok(last)
    /\ last.prev = "cancelled"
    /\ last.arg = "confirmed"
    /\ Cardinality(DOMAIN orders) = 2
    /\ \A id \in DOMAIN orders : orders[id].total_amount > 0
    /\ \A id \in DOMAIN orders : orders[id].status # "cancelled"
    /\ total_revenue = TotalOf(DOMAIN orders)

\* The quantity of product p in the first n rows of the order_item table
RECURSIVE QuantitySold(_, _)
QuantitySold(p, n) ==
    IF n = 0 THEN 0
    ELSE QuantitySold(p, n - 1)
         + (IF order_items[n].product_id = p THEN order_items[n].quantity ELSE 0)

HasItems(p) == \E i \in 1..Len(order_items) : order_items[i].product_id = p

\* C17: get_top_products returns at most 5 entries, by non-increasing total
\* quantity sold; the total of a product is the sum of quantity over all its
\* OrderItems, those of cancelled orders too; no product left out has a
\* strictly larger total than one returned.
C17_TopProducts ==
    view.rendered =>
        LET top == view.top_products
            named == {top[k].name : k \in 1..Len(top)}
            sellers == {p \in DOMAIN products : HasItems(p)}
        IN /\ Len(top) <= 5
           /\ Len(top) = Min(5, Cardinality(sellers))
           /\ Cardinality(named) = Len(top)
           /\ named \subseteq sellers
           /\ \A k \in 1..Len(top) :
                  top[k].sold = QuantitySold(top[k].name, Len(order_items))
           /\ \A k \in 1..(Len(top) - 1) : top[k].sold >= top[k + 1].sold
           /\ \A p \in sellers \ named : \A k \in 1..Len(top) :
                  QuantitySold(p, Len(order_items)) <= top[k].sold

\* Six products sold, product 6 in both orders: it is first with 3, five are
\* returned, and product 2, sold in the cancelled order only, is among them
\* while product 1 with the same total is left out
C17_Witness ==
    /\ view.rendered
    /\ Len(view.top_products) = 5
    /\ \A p \in DOMAIN products : HasItems(p)
    /\ view.top_products[1].name = 6
    /\ view.top_products[1].sold = 3
    /\ view.top_products[5].name = 2
    /\ view.top_products[5].sold = 1
    /\ QuantitySold(1, Len(order_items)) = 1
    /\ orders[2].status = "cancelled"

\* C18: in every state reached by add_order, update_order_status and
\* delete_order the status of each order is one of the five; an
\* update_order_status with another value leaves the status as it was; so
\* get_order_status_data has 5 entries, in the fixed order, each with the
\* number of orders of its status, and the counts add up to the number of
\* orders.
C18_StatusBreakdown ==
    LET five == <<"pending", "confirmed", "shipped", "delivered", "cancelled">>
        labels == <<"Pending", "Confirmed", "Shipped", "Delivered", "Cancelled">>
        data == get_order_status_data
    IN /\ \A id \in DOMAIN orders : \E k \in 1..5 : orders[id].status = five[k]
       /\ (/\ last.op = "update_order_status" /\ Ok(last)
           /\ \A k \in 1..5 : last.arg # five[k]) =>
              orders[last.id].status = last.prev
       /\ Len(data) = 5
       /\ \A k \in 1..5 :
              /\ data[k].status = labels[k]
              /\ data[k].count =
                     Cardinality({id \in DOMAIN orders : orders[id].status = five[k]})
       /\ data[1].count + data[2].count + data[3].count + data[4].count
              + data[5].count = Cardinality(DOMAIN orders)

\* With a shipped order and another one, an update to a status that is none
\* of the five was handled and left the order shipped
C18_Witness ==
    /\ last.op = "update_order_status"
    /\ Ok(last)
    /\ last.arg = "refunded"
    /\ last.prev = "shipped"
    /\ orders[last.id].status = "shipped"
    /\ Cardinality(DOMAIN orders) = 2
    /\ get_order_status_data[3].count >= 1

====
